---- MODULE Spec2Model ----
(***************************************************************************)
(* DDC monitor input switcher (src/ddc_switcher.py).                       *)
(*                                                                         *)
(* One thread: run() locates the macro pad, queries the monitor once, then *)
(* blocks in device.read_loop().  Each key-down event is dispatched to     *)
(* completion through blocking subprocess.run() calls.  A step of the      *)
(* model runs the program from one blocking point (a read, a subprocess    *)
(* call, a sleep) to the next.  SIGINT (KeyboardInterrupt) and device read *)
(* errors are delivered at blocking points.                                *)
(***************************************************************************)
EXTENDS Integers, Sequences, FiniteSets, TLC

(* ---------------------------- bounds ---------------------------------- *)
MaxDevices == 2      \* longest device enumeration drawn for evdev.list_devices()
MaxOutLen  == 4      \* longest stdout text drawn for a direct get_current_input() call

(* ----------------------- program constants ---------------------------- *)
bus_number == 2
inputs == [displayport |-> 15, usbc |-> 27, hdmi |-> 17]
InputNames == DOMAIN inputs

EV_KEY == 1
key_down == 1
KEY_F22 == 192
KEY_F23 == 193
KEY_F24 == 194
button_mapping == (KEY_F23 :> "displayport") @@ (KEY_F24 :> "usbc") @@ (KEY_F22 :> "hdmi_standby")

TargetName == "binepad BNK8"
OtherName  == "binepad BNK8 Keyboard"

SetTimeout   == 10
QueryTimeout == 5
NoTimeout    == 0    \* subprocess.run without a timeout argument

(* --------------------------- text ------------------------------------- *)
DigitChars == <<"0","1","2","3","4","5","6","7","8","9","a","b","c","d","e","f">>

\* str(n) for a non-negative integer
RECURSIVE Dec(_)
Dec(n) == IF n < 10 THEN <<DigitChars[n + 1]>> ELSE Dec(n \div 10) \o <<DigitChars[(n % 10) + 1]>>

\* str.lower() on the characters the model draws
LowerChar(c) == CASE c = "X" -> "x" [] c = "B" -> "b" [] c = "F" -> "f" [] OTHER -> c
Lower(s) == [i \in 1..Len(s) |-> LowerChar(s[i])]

\* Python's `sub in s` for strings
Contains(sub, s) == \E i \in 0..(Len(s) - Len(sub)) : SubSeq(s, i + 1, i + Len(sub)) = sub

Alphabet == {"x", "X", "0", "1", "2", "5", "7", "b", "f"}
Texts(n) == UNION {[1..k -> Alphabet] : k \in 0..n}

\* stdout of `ddcutil getvcp 60` as the monitor usually prints it (the sl= value)
SampleOutputs == {<<"x","0","f">>, <<"x","1","b">>, <<"x","1","1">>, <<"x","0","0">>}

(* --------------------------- commands --------------------------------- *)
\* argument lists handed to subprocess.run, with the timeout of the call
WhichCmd == [prog |-> "which", op |-> "ddcutil", feat |-> "", val |-> <<>>,
             bus |-> 0, noverify |-> FALSE, timeout |-> NoTimeout]
SetInputCmd(vcp_code) == [prog |-> "ddcutil", op |-> "setvcp", feat |-> "60", val |-> Dec(vcp_code),
             bus |-> bus_number, noverify |-> FALSE, timeout |-> SetTimeout]
hdmi_cmd == [prog |-> "ddcutil", op |-> "setvcp", feat |-> "60", val |-> <<"1","7">>,
             bus |-> bus_number, noverify |-> FALSE, timeout |-> SetTimeout]
standby_cmd == [prog |-> "ddcutil", op |-> "setvcp", feat |-> "D6", val |-> <<"0","2">>,
             bus |-> bus_number, noverify |-> TRUE, timeout |-> SetTimeout]
QueryCmd == [prog |-> "ddcutil", op |-> "getvcp", feat |-> "60", val |-> <<>>,
             bus |-> bus_number, noverify |-> FALSE, timeout |-> QueryTimeout]

\* a log entry: the command, how the call ended, and the stdout it captured
Issued(cmd) == [cmd |-> cmd, res |-> "run", out |-> <<>>]
Ended(entry, r, o) == [entry EXCEPT !.res = r, !.out = o]

\* how a subprocess.run call can end: exit 0, exit non-zero, TimeoutExpired
\* (only with a timeout), or an exception raised while spawning
Outcomes(cmd) == IF cmd.timeout = NoTimeout THEN {"ok", "nonzero", "error"}
                 ELSE {"ok", "nonzero", "timeout", "error"}

VARIABLES
  entry,          \* "main": run() drives the object; "call": its methods are called directly
  devices,        \* what evdev.list_devices() enumerates: [name, key] records
  device,         \* self.device: index into devices, 0 for None
  devOpen,        \* the selected device handle is open
  current_input,  \* self.current_input ("none" for None)
  pc,             \* the blocking point the thread is at
  event,          \* the event read last
  cmds,           \* subprocess.run calls made since the last event was read / call began
  input_name,     \* argument of the active switch_input call
  ret,            \* value the last switch_input / sequence call returned
  prev_input,     \* history: current_input when the last event was read / call began
  failedBefore,   \* history: a command failed while handling the previous event
  actual          \* call mode: what the direct get_current_input() call returned

vars == <<entry, devices, device, devOpen, current_input, pc, event, cmds,
          input_name, ret, prev_input, failedBefore, actual>>

NoEvent == [type |-> -1, code |-> -1, value |-> -1]
EventTypes == {0, EV_KEY}                    \* EV_SYN and EV_KEY
Scancodes  == {30, KEY_F22, KEY_F23, KEY_F24}   \* KEY_A has no mapping
KeyStates  == {0, key_down, 2}                \* key_up, key_down, key_hold
Events == [type : EventTypes, code : Scancodes, value : KeyStates]

DeviceKinds == [name : {TargetName, OtherName}, key : BOOLEAN]
Enumerations(n) == UNION {[1..k -> DeviceKinds] : k \in 0..n}

(* ------------------------ get_current_input --------------------------- *)

\* variant: the markers are looked up in the text as printed, not lower-cased
ParseOutput_caseSensitive(stdout) ==
  LET output == stdout IN
  IF Contains(<<"x","0","f">>, output) \/ Contains(<<"1","5">>, output) THEN "displayport"
  ELSE IF Contains(<<"x","1","b">>, output) \/ Contains(<<"2","7">>, output) THEN "usbc"
  ELSE IF Contains(<<"x","1","1">>, output) \/ Contains(<<"1","7">>, output) THEN "hdmi"
  ELSE "unknown"

ParseOutput(stdout) ==
  LET output == Lower(stdout) IN
  IF Contains(<<"x","0","f">>, output) \/ Contains(<<"1","5">>, output) THEN "displayport"
  ELSE IF Contains(<<"x","1","b">>, output) \/ Contains(<<"2","7">>, output) THEN "usbc"
  ELSE IF Contains(<<"x","1","1">>, output) \/ Contains(<<"1","7">>, output) THEN "hdmi"
  ELSE "unknown"

\* value get_current_input returns for a call that ended with r and stdout o
get_current_input(r, o) == IF r = "ok" THEN ParseOutput(o) ELSE "unknown"

(* -------------------------- find_macro_pad ---------------------------- *)
RECURSIVE ScanNamed(_, _)
ScanNamed(devs, i) ==
  IF i > Len(devs) THEN 0
  ELSE IF devs[i].key /\ devs[i].name = TargetName THEN i
  ELSE ScanNamed(devs, i + 1)

RECURSIVE keyboard_devices(_, _)
keyboard_devices(devs, i) ==
  IF i > Len(devs) THEN <<>>
  ELSE IF devs[i].key THEN <<i>> \o keyboard_devices(devs, i + 1)
  ELSE keyboard_devices(devs, i + 1)


\* variant: the name is not looked at, the first keyboard-like device wins
find_macro_pad_firstKeyboard(devs) ==
  LET kbd == keyboard_devices(devs, 1)
  IN IF kbd # <<>> THEN kbd[1] ELSE 0

find_macro_pad(devs) ==
  LET named == ScanNamed(devs, 1)
      kbd   == keyboard_devices(devs, 1)
  IN IF named # 0 THEN named
     ELSE IF kbd # <<>> THEN kbd[1] ELSE 0

(* ------------------- straight-line code between calls ------------------ *)
\* What the thread does from one blocking point to the next:
\*   next   - the blocking point it reaches ("return": the method returns)
\*   issue  - the subprocess.run call it makes there, if any
\*   assign - the value it stores in self.current_input ("" for none)
\*   ret    - the value the method returns
Goto(next, issue, assign) == [next |-> next, issue |-> issue, assign |-> assign, ret |-> "none"]
Return(value) == [next |-> "return", issue |-> <<>>, assign |-> "", ret |-> value]


\* the "set power-on" command of the wake-then-switch variant of the design
wake_cmd == [prog |-> "ddcutil", op |-> "setvcp", feat |-> "D6", val |-> <<"0","1">>,
             bus |-> bus_number, noverify |-> TRUE, timeout |-> SetTimeout]

\* variant: a wake command is sent where the source probes for ddcutil
switch_input_wakes(name) ==
  IF name \notin InputNames THEN Return("false")
  ELSE Goto("which", <<wake_cmd>>, "")

\* switch_input up to its first subprocess.run call
switch_input(name) ==
  IF name \notin InputNames THEN Return("false")
  ELSE Goto("which", <<WhichCmd>>, "")

\* switch_input after `which ddcutil` ended with r
after_which(name, r) ==
  IF r = "error" THEN Return("false")
  ELSE Goto("set", <<SetInputCmd(inputs[name])>>, "")

\* switch_input after the setvcp call ended with r
after_set(name, r) ==
  IF r = "ok" THEN Goto("sleep", <<>>, name)
  ELSE Return("false")

\* switch_input after time.sleep(1): the verification query
after_sleep == Goto("verify", <<QueryCmd>>, "")


\* variant: the verification result gates the return value
after_verify_gates(actual_input) == Return(IF actual_input = "unknown" THEN "false" ELSE "true")

\* variant: the verification result is stored in self.current_input
after_verify_adopts(actual_input) == [Return("true") EXCEPT !.assign = actual_input]

\* switch_input after the verification query returned actual_input
after_verify(actual_input) == Return("true")

\* switch_to_hdmi_and_standby up to its first subprocess.run call
switch_to_hdmi_and_standby == Goto("hdmi", <<hdmi_cmd>>, "")


\* variant: step 2 is issued whatever step 1 returned
after_hdmi_unchecked(r) == Goto("standby", <<standby_cmd>>, "hdmi")

\* switch_to_hdmi_and_standby after the HDMI setvcp call ended with r
after_hdmi(r) ==
  IF r = "ok" THEN Goto("standby", <<standby_cmd>>, "hdmi")
  ELSE Return("false")

\* switch_to_hdmi_and_standby after the standby call ended with r
after_standby(r) == IF r = "ok" THEN Return("true") ELSE Return("false")

\* handle_button_press; the dispatcher discards what the action returns
handle_button_press(scancode, cur) ==
  IF scancode \in DOMAIN button_mapping THEN
    LET action == button_mapping[scancode] IN
    IF action = "hdmi_standby" THEN switch_to_hdmi_and_standby
    ELSE IF cur = action THEN Return("none")
    ELSE switch_input(action)
  ELSE Return("none")


\* variant: every key event is handled, whatever its key state
dispatch_anyState(ev, cur) ==
  IF ev.type = EV_KEY THEN handle_button_press(ev.code, cur)
  ELSE Return("none")

\* body of the read loop for one event
dispatch(ev, cur) ==
  IF ev.type = EV_KEY THEN
    IF ev.value = key_down THEN handle_button_press(ev.code, cur)
    ELSE Return("none")
  ELSE Return("none")

(* ------------------------------ steps --------------------------------- *)
InFlight == Len(cmds) > 0 /\ cmds[Len(cmds)].res = "run"
EndLast(r, o) == [cmds EXCEPT ![Len(cmds)] = Ended(@, r, o)]
IssueAll(issue) == [i \in 1..Len(issue) |-> Issued(issue[i])]
Failed(e) == e.res \in {"nonzero", "timeout", "error"}

\* where control is once the called method has returned
AfterReturn == IF entry = "main" THEN "idle" ELSE "returned"


\* variant: a failed action unwinds to run() and ends the loop
Proceed_fatal(step, r, o) ==
  /\ cmds' = EndLast(r, o) \o IssueAll(step.issue)
  /\ current_input' = IF step.assign # "" THEN step.assign ELSE current_input
  /\ pc' = IF step.next = "return"
           THEN (IF step.ret = "false" THEN "stopped" ELSE AfterReturn)
           ELSE step.next
  /\ ret' = IF step.next = "return" THEN step.ret ELSE ret

\* the call in flight ends with r and stdout o, then the code of `step` runs
Proceed(step, r, o) ==
  /\ cmds' = EndLast(r, o) \o IssueAll(step.issue)
  /\ current_input' = IF step.assign # "" THEN step.assign ELSE current_input
  /\ pc' = IF step.next = "return" THEN AfterReturn ELSE step.next
  /\ ret' = IF step.next = "return" THEN step.ret ELSE ret

\* result.stdout of a query that ended with r, the monitor printing one of texts
Stdouts(r, texts) == IF r = "ok" THEN texts ELSE {<<>>}

Init ==
  /\ entry = "main"
  /\ devices \in Enumerations(MaxDevices)
  /\ device = 0
  /\ devOpen = FALSE
  /\ current_input = "none"
  /\ pc = "init"
  /\ event = NoEvent
  /\ cmds = <<>>
  /\ input_name = ""
  /\ ret = "none"
  /\ prev_input = "none"
  /\ failedBefore = FALSE
  /\ actual = "none"

\* run(): locate the device, then issue the startup query
Start ==
  /\ pc = "init" /\ entry = "main"
  /\ LET d == find_macro_pad(devices) IN
       IF d = 0
       THEN /\ pc' = "exited"
            /\ UNCHANGED <<device, devOpen, cmds>>
       ELSE /\ device' = d
            /\ devOpen' = TRUE
            /\ cmds' = <<Issued(QueryCmd)>>
            /\ pc' = "startup_query"
  /\ UNCHANGED <<entry, devices, current_input, event, input_name, ret, prev_input,
                 failedBefore, actual>>

\* run(): self.current_input = self.get_current_input(), then enter the read loop
StartupQueryDone ==
  /\ pc = "startup_query"
  /\ \E r \in Outcomes(QueryCmd) : \E o \in Stdouts(r, SampleOutputs) :
       /\ cmds' = EndLast(r, o)
       /\ current_input' = get_current_input(r, o)
  /\ pc' = "idle"
  /\ UNCHANGED <<entry, devices, device, devOpen, event, input_name, ret, prev_input,
                 failedBefore, actual>>

\* read_loop yields one event and the loop body runs up to its first blocking call
ReadEvent ==
  /\ pc = "idle" /\ entry = "main"
  /\ \E ev \in Events :
       LET step == dispatch(ev, current_input) IN
       /\ event' = ev
       /\ cmds' = IssueAll(step.issue)
       /\ pc' = IF step.next = "return" THEN "idle" ELSE step.next
       /\ input_name' = IF step.next = "which" THEN button_mapping[ev.code] ELSE input_name
       /\ ret' = IF step.next = "return" THEN step.ret ELSE ret
  /\ prev_input' = current_input
  /\ failedBefore' = (event # NoEvent /\ \E i \in 1..Len(cmds) : Failed(cmds[i]))
  /\ UNCHANGED <<entry, devices, device, devOpen, current_input, actual>>

\* `which ddcutil` ends
WhichDone ==
  /\ pc = "which" /\ InFlight
  /\ \E r \in Outcomes(WhichCmd) : Proceed(after_which(input_name, r), r, <<>>)
  /\ UNCHANGED <<entry, devices, device, devOpen, event, input_name, prev_input,
                 failedBefore, actual>>

\* `which ddcutil` never ends: the call has no timeout
WhichHangs ==
  /\ pc = "which" /\ InFlight
  /\ cmds' = EndLast("hung", <<>>)
  /\ pc' = "which_hung"
  /\ UNCHANGED <<entry, devices, device, devOpen, current_input, event, input_name, ret,
                 prev_input, failedBefore, actual>>

\* `ddcutil setvcp 60 <code>` ends
SetDone ==
  /\ pc = "set" /\ InFlight
  /\ \E r \in Outcomes(SetInputCmd(inputs[input_name])) : Proceed(after_set(input_name, r), r, <<>>)
  /\ UNCHANGED <<entry, devices, device, devOpen, event, input_name, prev_input,
                 failedBefore, actual>>

\* time.sleep(1) ends and the verification query is issued
SleepDone ==
  /\ pc = "sleep"
  /\ cmds' = cmds \o IssueAll(after_sleep.issue)
  /\ pc' = after_sleep.next
  /\ UNCHANGED <<entry, devices, device, devOpen, current_input, event, input_name, ret,
                 prev_input, failedBefore, actual>>

\* the verification query ends; its result is logged
VerifyDone ==
  /\ pc = "verify" /\ InFlight
  /\ \E r \in Outcomes(QueryCmd) : \E o \in Stdouts(r, SampleOutputs) :
       Proceed(after_verify(get_current_input(r, o)), r, o)
  /\ UNCHANGED <<entry, devices, device, devOpen, event, input_name, prev_input,
                 failedBefore, actual>>

\* step 1 of the HDMI + standby sequence ends
HdmiDone ==
  /\ pc = "hdmi" /\ InFlight
  /\ \E r \in Outcomes(hdmi_cmd) : Proceed(after_hdmi(r), r, <<>>)
  /\ UNCHANGED <<entry, devices, device, devOpen, event, input_name, prev_input,
                 failedBefore, actual>>

\* step 2 of the HDMI + standby sequence ends
StandbyDone ==
  /\ pc = "standby" /\ InFlight
  /\ \E r \in Outcomes(standby_cmd) : Proceed(after_standby(r), r, <<>>)
  /\ UNCHANGED <<entry, devices, device, devOpen, event, input_name, prev_input,
                 failedBefore, actual>>

\* what a KeyboardInterrupt raised at blocking point p does: get_current_input
\* swallows it in its bare `except:`, everywhere else it unwinds to run()
Swallowed(p) == p \in {"startup_query", "verify"}
Interruptible == {"idle", "which", "which_hung", "set", "sleep", "hdmi", "standby",
                  "startup_query", "verify"}

\* SIGINT arrives while the thread is blocked
Interrupt ==
  /\ entry = "main" /\ pc \in Interruptible
  /\ IF Swallowed(pc)
     THEN /\ cmds' = EndLast("interrupted", <<>>)
          /\ current_input' = IF pc = "startup_query" THEN get_current_input("interrupted", <<>>)
                              ELSE current_input
          /\ ret' = IF pc = "verify" THEN after_verify(get_current_input("interrupted", <<>>)).ret
                    ELSE ret
          /\ pc' = "idle"
          /\ UNCHANGED devOpen
     ELSE /\ cmds' = IF InFlight \/ pc = "which_hung" THEN EndLast("interrupted", <<>>) ELSE cmds
          /\ pc' = "stopped"
          /\ devOpen' = FALSE
          /\ UNCHANGED <<current_input, ret>>
  /\ UNCHANGED <<entry, devices, device, event, input_name, prev_input, failedBefore,
                 actual>>

\* read_loop raises (device unplugged): logged, then the finally clause closes the device
ReadError ==
  /\ entry = "main" /\ pc = "idle"
  /\ pc' = "stopped"
  /\ devOpen' = FALSE
  /\ UNCHANGED <<entry, devices, device, current_input, event, cmds, input_name, ret,
                 prev_input, failedBefore, actual>>

Next ==
  \/ Start
  \/ StartupQueryDone
  \/ ReadEvent
  \/ WhichDone
  \/ WhichHangs
  \/ SetDone
  \/ SleepDone
  \/ VerifyDone
  \/ HdmiDone
  \/ StandbyDone
  \/ Interrupt
  \/ ReadError

Spec == Init /\ [][Next]_vars

\* the steps the thread itself takes: a call with a timeout always ends
ProgramStep ==
  \/ Start
  \/ StartupQueryDone
  \/ WhichDone
  \/ SetDone
  \/ SleepDone
  \/ VerifyDone
  \/ HdmiDone
  \/ StandbyDone

FairSpec == Init /\ [][Next]_vars /\ WF_vars(ProgramStep)

(* ------------------- the methods called directly ---------------------- *)
\* A caller constructs the object and calls switch_input(input_name), then
\* get_current_input().
UnknownName == "vga"
CallTargets == InputNames \cup {UnknownName}

CallInit ==
  /\ entry = "call"
  /\ devices = <<>>
  /\ device = 0
  /\ devOpen = FALSE
  /\ current_input = "none"
  /\ pc = "call"
  /\ event = NoEvent
  /\ cmds = <<>>
  /\ input_name \in CallTargets
  /\ ret = "none"
  /\ prev_input = "none"
  /\ failedBefore = FALSE
  /\ actual = "none"

\* switch_input(input_name) is called and runs up to its first blocking call
CallSwitchInput ==
  /\ pc = "call" /\ entry = "call"
  /\ LET step == switch_input(input_name) IN
       /\ cmds' = IssueAll(step.issue)
       /\ pc' = IF step.next = "return" THEN AfterReturn ELSE step.next
       /\ ret' = IF step.next = "return" THEN step.ret ELSE ret
  /\ prev_input' = current_input
  /\ UNCHANGED <<entry, devices, device, devOpen, current_input, event, input_name,
                 failedBefore, actual>>

\* get_current_input() is called after switch_input returned
CallGetCurrentInput ==
  /\ pc = "returned" /\ entry = "call"
  /\ cmds' = <<Issued(QueryCmd)>>
  /\ pc' = "query"
  /\ UNCHANGED <<entry, devices, device, devOpen, current_input, event, input_name, ret,
                 prev_input, failedBefore, actual>>

\* the query of the direct get_current_input() call ends
QueryDone ==
  /\ pc = "query" /\ InFlight
  /\ \E r \in Outcomes(QueryCmd) : \E o \in Stdouts(r, Texts(MaxOutLen)) :
       /\ cmds' = EndLast(r, o)
       /\ actual' = get_current_input(r, o)
  /\ pc' = "done"
  /\ UNCHANGED <<entry, devices, device, devOpen, current_input, event, input_name, ret,
                 prev_input, failedBefore>>

CallNext ==
  \/ CallSwitchInput
  \/ WhichDone
  \/ WhichHangs
  \/ SetDone
  \/ SleepDone
  \/ VerifyDone
  \/ CallGetCurrentInput
  \/ QueryDone

CallSpec == CallInit /\ [][CallNext]_vars

(* ===================== properties of the program ====================== *)
IsSetInput(e) == e.cmd.prog = "ddcutil" /\ e.cmd.op = "setvcp" /\ e.cmd.feat = "60"
IsStandby(e)  == e.cmd.prog = "ddcutil" /\ e.cmd.op = "setvcp" /\ e.cmd.feat = "D6"
                 /\ e.cmd.val = <<"0","2">> /\ e.cmd.noverify
IsWake(e)     == e.cmd.prog = "ddcutil" /\ e.cmd.op = "setvcp" /\ e.cmd.feat = "D6"
                 /\ e.cmd.val = <<"0","1">>
IsQuery(e)    == e.cmd.prog = "ddcutil" /\ e.cmd.op = "getvcp" /\ e.cmd.feat = "60"
IsProbe(e)    == e.cmd.prog = "which"

KeyDown(ev)       == ev.type = EV_KEY /\ ev.value = key_down
MappedKeyDown(ev) == KeyDown(ev) /\ ev.code \in DOMAIN button_mapping
SimpleKeyDown(ev) == MappedKeyDown(ev) /\ button_mapping[ev.code] \in InputNames
StandbyKeyDown(ev) == MappedKeyDown(ev) /\ button_mapping[ev.code] = "hdmi_standby"

Handling == pc \in {"which", "which_hung", "set", "sleep", "verify", "hdmi", "standby"}
Started  == entry = "main" /\ (pc = "idle" \/ pc = "stopped" \/ Handling)
SetIdx   == {i \in 1..Len(cmds) : IsSetInput(cmds[i])}
OkSetIdx == {i \in SetIdx : cmds[i].res = "ok"}
MaxOf(S) == CHOOSE m \in S : \A k \in S : k <= m
MinOf(S) == CHOOSE m \in S : \A k \in S : m <= k
NameOfCode(val) == CHOOSE n \in InputNames : Dec(inputs[n]) = val

(* C1: in the HDMI + standby sequence the standby command (setvcp D6 02    *)
(* --noverify) is issued only as the second command, after the HDMI switch *)
(* (setvcp 60 17) of the same F22 key-down returned exit code 0; when the  *)
(* switch fails no standby command is issued, and when it succeeds exactly *)
(* the two commands are issued, switch then standby.                       *)
StandbyOnlyAfterHdmiSwitch ==
  entry = "main" =>
    /\ \A i \in 1..Len(cmds) : IsStandby(cmds[i]) =>
         /\ i = 2
         /\ StandbyKeyDown(event)
         /\ IsSetInput(cmds[1]) /\ cmds[1].cmd.val = <<"1","7">>
         /\ cmds[1].res = "ok"
    /\ (pc = "idle" /\ StandbyKeyDown(event)) =>
         /\ Len(cmds) >= 1
         /\ IsSetInput(cmds[1]) /\ cmds[1].cmd.val = <<"1","7">>
         /\ IF cmds[1].res = "ok"
            THEN Len(cmds) = 2 /\ IsStandby(cmds[2])
            ELSE Len(cmds) = 1

StandbySequenceCompleted ==
  /\ pc = "idle" /\ StandbyKeyDown(event)
  /\ Len(cmds) = 2 /\ cmds[1].res = "ok" /\ IsStandby(cmds[2]) /\ cmds[2].res = "nonzero"

(* C2: when switch_input(input_name) has returned, it returned true exactly *)
(* when its set command exited with code 0, and then current_input is the  *)
(* target; in every failure case (non-zero exit, timeout, spawn error,     *)
(* unknown target) it returned false and current_input is what it was      *)
(* before the call.  The verification query does not change the result.    *)
SwitchInputResult ==
  (entry = "call" /\ pc = "returned") =>
    /\ ret \in {"true", "false"}
    /\ (ret = "true") <=> (OkSetIdx # {})
    /\ OkSetIdx # {} =>
         /\ input_name \in InputNames
         /\ current_input = input_name
         /\ \A i \in SetIdx : cmds[i].cmd = SetInputCmd(inputs[input_name])
    /\ OkSetIdx = {} => current_input = prev_input
    /\ input_name \notin InputNames => (ret = "false" /\ cmds = <<>>)

SwitchReturnedTrueAfterFailedVerify ==
  /\ entry = "call" /\ pc = "returned" /\ ret = "true"
  /\ Len(cmds) = 3 /\ IsQuery(cmds[3]) /\ cmds[3].res = "timeout"
  /\ current_input = input_name

(* C3: once the startup query is done, current_input is the target of the  *)
(* most recent set-input command that returned exit code 0, or the result  *)
(* of the startup query when none has; failed commands, the verification   *)
(* query and the standby command do not change it, and it is hdmi once     *)
(* step 1 of the standby sequence has succeeded.                           *)
LastCommanded ==
  IF OkSetIdx # {} THEN NameOfCode(cmds[MaxOf(OkSetIdx)].cmd.val)
  ELSE IF event = NoEvent THEN get_current_input(cmds[1].res, cmds[1].out)
  ELSE prev_input

CurrentInputIsLastCommanded ==
  Started =>
    /\ current_input = LastCommanded
    /\ (StandbyKeyDown(event) /\ Len(cmds) >= 1 /\ cmds[1].res = "ok") => current_input = "hdmi"

VerifyDisagreesWithCurrentInput ==
  /\ entry = "main" /\ pc = "idle"
  /\ Len(cmds) = 3 /\ IsQuery(cmds[3]) /\ cmds[3].res = "ok"
  /\ ParseOutput(cmds[3].out) \notin {current_input, "unknown"}

(* C4: once the dispatcher is idle, commands are issued only while a       *)
(* key-down event with a mapped scancode is handled: after any other event *)
(* (unmapped key-down, key-up, hold, non-key event) no command has been    *)
(* issued, current_input is unchanged and the dispatcher waits again.      *)
IgnoredEventsIssueNothing ==
  (entry = "main" /\ event # NoEvent) =>
    /\ cmds # <<>> => MappedKeyDown(event)
    /\ ~MappedKeyDown(event) =>
         /\ cmds = <<>>
         /\ current_input = prev_input
         /\ pc \in {"idle", "stopped"}

HoldOfMappedButtonIgnored ==
  /\ pc = "idle" /\ event = [type |-> EV_KEY, code |-> KEY_F22, value |-> 2]
  /\ cmds = <<>>

(* C5: a key-down of a button mapped to a simple input issues exactly one  *)
(* set-input command, carrying that input's code, when current_input       *)
(* differs from the target (current_input becoming the target on success), *)
(* and no command at all when current_input already equals the target.     *)
SimplePressIssuesOneSet ==
  (entry = "main" /\ pc = "idle" /\ SimpleKeyDown(event)) =>
    LET t == button_mapping[event.code] IN
    IF prev_input # t
    THEN /\ Cardinality(SetIdx) = 1
         /\ \A i \in SetIdx : /\ cmds[i].cmd.val = Dec(inputs[t])
                              /\ (cmds[i].res = "ok" => current_input = t)
    ELSE cmds = <<>>

(* C6: the dispatcher stops only by an interruption signal or a read error *)
(* of the device; a command that fails, times out or cannot be spawned     *)
(* leaves it idle (a non-zero exit of the ddcutil probe is ignored and the *)
(* switch goes on).  When stopped, the device handle is released and       *)
(* nothing changes any more.                                               *)
StopsOnlyOnSignalOrReadError ==
  [][ /\ (pc # "stopped" /\ pc' = "stopped") => (Interrupt \/ ReadError)
      /\ (InFlight /\ Len(cmds') >= Len(cmds) /\ Failed(cmds'[Len(cmds)])) =>
            (pc' = "idle" \/ (IsProbe(cmds[Len(cmds)]) /\ pc' = "set"))
      /\ pc' = "stopped" => ~devOpen'
      /\ pc # "stopped" ]_vars

DispatchedAfterFailure ==
  /\ entry = "main" /\ failedBefore /\ Handling /\ KeyDown(event)

(* C7: the handling of every key-down event eventually finishes, every     *)
(* call it makes being bounded by a timeout.                               *)
HandlingAlwaysFinishes == [](Handling => <>(~Handling))

(* C8 as stated: after switch_input(v) returned true, get_current_input()  *)
(* returns v whenever its query exits with 0 and the output contains a     *)
(* decimal or hex marker of v's code; it returns unknown on a failed query *)
(* or an output without any marker.                                        *)
Hex2(n) == <<DigitChars[(n \div 16) + 1], DigitChars[(n % 16) + 1]>>
HexMarker(v) == <<"x">> \o Hex2(inputs[v])
DecMarker(v) == Dec(inputs[v])
Encodes(o, v) == Contains(HexMarker(v), Lower(o)) \/ Contains(DecMarker(v), Lower(o))
CheckOrder == <<"displayport", "usbc", "hdmi">>
CheckedBefore(v) == {CheckOrder[j] : j \in {k \in 1..Len(CheckOrder) :
                       \E m \in 1..Len(CheckOrder) : CheckOrder[m] = v /\ k < m}}
UnknownOnMiss ==
  (cmds[1].res # "ok" \/ \A w \in InputNames : ~Encodes(cmds[1].out, w)) => actual = "unknown"

RoundTripAnyMarker ==
  (entry = "call" /\ pc = "done") =>
    /\ (ret = "true" /\ cmds[1].res = "ok" /\ Encodes(cmds[1].out, input_name))
         => actual = input_name
    /\ UnknownOnMiss

(* C8 amended: the same, for outputs that contain a marker of v and no     *)
(* marker of an input tested before v (displayport, then usbc, then hdmi). *)
RoundTripFirstMarker ==
  (entry = "call" /\ pc = "done") =>
    /\ (/\ ret = "true" /\ cmds[1].res = "ok" /\ Encodes(cmds[1].out, input_name)
        /\ \A w \in CheckedBefore(input_name) : ~Encodes(cmds[1].out, w))
         => actual = input_name
    /\ UnknownOnMiss

RoundTripUpperCaseHdmi ==
  /\ entry = "call" /\ pc = "done" /\ ret = "true" /\ input_name = "hdmi"
  /\ cmds[1].res = "ok" /\ cmds[1].out = <<"0","X","1","1">>
  /\ actual = "hdmi"

(* C9: find_macro_pad selects a key-capable device named "binepad BNK8"    *)
(* when the enumeration has one, wherever it stands; otherwise the first   *)
(* key-capable device in enumeration order; and with no key-capable device *)
(* it finds none, run() returns, and no command is ever issued.            *)
KeyCapable == {i \in 1..Len(devices) : devices[i].key}
NamedTarget == {i \in KeyCapable : devices[i].name = TargetName}

DeviceSelection ==
  (entry = "main" /\ pc # "init") =>
    IF NamedTarget # {} THEN device \in NamedTarget
    ELSE IF KeyCapable # {} THEN device = MinOf(KeyCapable)
    ELSE /\ device = 0 /\ pc = "exited" /\ cmds = <<>>
         /\ current_input = "none" /\ event = NoEvent

NamedDeviceChosenOverEarlierKeyboard ==
  /\ pc = "idle" /\ Len(devices) = 2 /\ device = 2
  /\ devices[1].key /\ devices[1].name = OtherName
  /\ devices[2].name = TargetName

(* C10 as stated: every set-input command issued for a simple button       *)
(* action is preceded, within the same key-down event, by exactly one wake *)
(* (set power-on) command.                                                 *)
WakePrecedesEverySwitch ==
  (entry = "main" /\ SimpleKeyDown(event)) =>
    \A i \in SetIdx : Cardinality({j \in 1..(i - 1) : IsWake(cmds[j])}) = 1

(* C10 amended: a simple button action calls switch_input directly: no     *)
(* wake command is ever issued, and every set-input command issued for a   *)
(* simple button action is preceded, within the same key-down event, by    *)
(* exactly one command, the `which ddcutil` probe.                         *)
ProbePrecedesEverySwitch ==
  entry = "main" =>
    /\ \A i \in 1..Len(cmds) : ~IsWake(cmds[i])
    /\ SimpleKeyDown(event) =>
         \A i \in SetIdx : i = 2 /\ IsProbe(cmds[1]) /\ cmds[1].cmd = WhichCmd

SwitchIssuedAfterProbe ==
  /\ entry = "main" /\ SimpleKeyDown(event) /\ pc = "set"
  /\ Len(cmds) = 2 /\ IsProbe(cmds[1]) /\ IsSetInput(cmds[2])

====
